---- MODULE Spec2Model ----
(***************************************************************************)
(* State-machine model of the nRF Wi-Fi HAL common API                     *)
(* (hw_if/hal/src/common/hal_api_common.c): the command send pipeline,     *)
(* the RPU power-save wake/sleep machine and the interrupt handler.        *)
(*                                                                         *)
(* Three specifications share the variables:                               *)
(*   SpecCmd  - concurrent nrf_wifi_hal_ctrl_cmd_send callers              *)
(*   SpecPs   - hal_rpu_ps_wake callers and the idle-sleep timer           *)
(*   SpecIrq  - nrf_wifi_hal_irq_handler, enable/disable, event tasklet    *)
(***************************************************************************)
EXTENDS Integers, Sequences, FiniteSets, TLC

(***************************************************************************)
(* Bounds of the model.                                                    *)
(***************************************************************************)
\* longest command buffer handed to nrf_wifi_hal_ctrl_cmd_send
MaxLen == 3
\* largest configured cfg_params.max_cmd_size
MaxCmdSize == 2
\* number of distinct RPU-side command buffer addresses (1..NumAddrs)
NumAddrs == 1
\* most allocation, queue or bus failures injected in one run
MaxFaults == 1
\* last value of the clock in the power-save specification
MaxTime == 5
\* most event buffers the interrupt routine allocates in one run
MaxEvents == 3
\* clock units that make one second in the power-save specification
TicksPerSec == 3

(***************************************************************************)
(* Program constants, in model time units.                                 *)
(* One clock unit of SpecCmd is MAX_HAL_RPU_READY_WAIT / 2 microseconds.   *)
(* One clock unit of SpecPs is a millisecond; a second is scaled down to   *)
(* TicksPerSec such units.                                                 *)
(***************************************************************************)
MAX_HAL_RPU_READY_WAIT == 2
RPU_PS_WAKE_INTERVAL_MS == 1
RPU_PS_WAKE_TIMEOUT_S == 1
NRF_WIFI_RPU_MIN_TIME_TO_ENTER_SLEEP_MS == 1
\* nrf_wifi_osal_delay_us(1000) in hal_rpu_ps_wake
SettleDelay == 1

\* the contexts that call nrf_wifi_hal_ctrl_cmd_send / hal_rpu_ps_wake
Callers == {1, 2}
NoOwner == 0
\* lock owners other than the callers: the idle-sleep timer callback and
\* the interrupt handler
TimerCtx == 3
IrqCtx == 3
TaskletCtx == 4
NoMsg == [len |-> 0, data |-> <<>>, call |-> 0, frag |-> 0]

VARIABLES
    \* ---- command pipeline (struct nrf_wifi_hal_dev_ctx, hpriv->cfg_params)
    max_cmd_size,   \* hpriv->cfg_params.max_cmd_size
    lock_hal,       \* hal_dev_ctx->lock_hal: owner or NoOwner
    cmd_q,          \* hal_dev_ctx->cmd_q: FIFO of HAL messages
    num_cmds,       \* hal_dev_ctx->num_cmds
    avl_ring,       \* RPU side: hpqm_info.cmd_avl_queue contents
    avl_pub,        \* RPU side: the buffer it publishes next, less one
    bus_log,        \* host writes seen by the RPU, in order
    freed,          \* HAL messages released with nrf_wifi_osal_mem_free
    faults,         \* failures of the OS and bus layers injected so far
    pc,             \* position of each caller
    cmd,            \* the caller's command buffer (cmd, cmd_size)
    len,            \* hal_rpu_cmd_queue: len
    off,            \* hal_rpu_cmd_queue: data - cmd
    nfrag,          \* fragments this call appended so far
    status,         \* local status of the running function
    cur,            \* hal_rpu_cmd_process_queue: cmd
    elapsed_us,     \* hal_rpu_ready_wait: time elapsed since start_time_us
    ret,            \* value returned to the caller
    appended,       \* per call: the messages it appended to cmd_q
                    \* (observation only)
    hist            \* per call: what happened during it (observation only)

cmdVars == <<max_cmd_size, lock_hal, cmd_q, num_cmds, avl_ring, avl_pub,
             bus_log,
             freed, faults, pc, cmd, len, off, nfrag, status, cur,
             elapsed_us, ret, appended, hist>>

VARIABLES
    \* ---- power save (NRF_WIFI_LOW_POWER, NRF_WIFI_RPU_RECOVERY)
    rpu_fw_booted,  \* hal_dev_ctx->rpu_fw_booted
    rpu_ps_state,   \* hal_dev_ctx->rpu_ps_state
    rpu_ps_lock,    \* hal_dev_ctx->rpu_ps_lock: owner or NoOwner
    rpu_ps_timer,   \* hal_dev_ctx->rpu_ps_timer: is the one-shot timer armed
    is_wakeup_now_asserted,
    last_wakeup_now_asserted_time_ms,
    last_wakeup_now_deasserted_time_ms,
    last_rpu_sleep_opp_time_ms,
    now,            \* the OSAL clock
    ps_pc,          \* position of each caller of hal_rpu_ps_wake
    ps_status,      \* hal_rpu_ps_wake: status
    ps_start,       \* hal_rpu_ps_wake: start_time_us
    ps_idle_start,  \* hal_rpu_ps_wake: idle_time_start_us
    ps_ret,         \* value hal_rpu_ps_wake returned
    ps_hist,        \* per call: what it did on the bus (observation only)
    sleep_pc,       \* position of the timer callback hal_rpu_ps_sleep
    ps_bus          \* observation: the last power signal given to the bus

psVars == <<rpu_fw_booted, rpu_ps_state, rpu_ps_lock, rpu_ps_timer,
            is_wakeup_now_asserted, last_wakeup_now_asserted_time_ms,
            last_wakeup_now_deasserted_time_ms, last_rpu_sleep_opp_time_ms,
            now, ps_pc, ps_status, ps_start, ps_idle_start, ps_ret, ps_hist,
            sleep_pc, ps_bus>>

VARIABLES
    \* ---- interrupt and event path
    hal_status,        \* hal_dev_ctx->hal_status
    lock_rx,           \* hal_dev_ctx->lock_rx: owner or NoOwner
    event_q,           \* hal_dev_ctx->event_q
    event_tasklet,     \* is hal_dev_ctx->event_tasklet scheduled
    ev_seq,            \* number of event buffers allocated so far; the
                       \* buffers are named 1, 2, ... in allocation order
    delivered,         \* the calls of hpriv->intr_callbk_fn so far, in
                       \* order: the event and the status it returned
    event_freed,       \* the event buffers freed so far, in order
    evt_pc,            \* position of the event deferred-work unit
    evt_status,        \* hal_rpu_eventq_process: status
    irq_pc,            \* position of nrf_wifi_hal_irq_handler
    irq_status,        \* nrf_wifi_hal_irq_handler: status
    irq_hist           \* per interrupt: what the handler did
                       \* (observation only)

irqVars == <<hal_status, lock_rx, event_q, event_tasklet, ev_seq, delivered,
             event_freed, evt_pc, evt_status, irq_pc, irq_status, irq_hist>>

VARIABLES
    \* ---- scheduled by both hal_rpu_ps_wake and nrf_wifi_hal_irq_handler
    recovery_tasklet   \* is hal_dev_ctx->recovery_tasklet scheduled

VARIABLES
    \* ---- teardown: nrf_wifi_hal_dev_deinit and nrf_wifi_hal_dev_rem
    td_pc,             \* position of the context that tears the device down
    rem_i,             \* nrf_wifi_hal_dev_rem: the statement it is at
    drain_ev           \* hal_rpu_eventq_drain: event (0: none)

remVars == <<td_pc, rem_i, drain_ev>>

VARIABLES
    \* ---- nrf_wifi_hal_proc_reset and nrf_wifi_hal_fw_chk_boot
    curr_proc,         \* hal_dev_ctx->curr_proc
    rb_pc,             \* position of the caller
    rb_proc,           \* the rpu_proc argument
    rb_count,          \* count / mcu_ready_wait_count
    rb_val,            \* val
    rb_status,         \* status
    rb_polls,          \* observation: reads made by the running poll loop
    seen_clear,        \* observation: a poll found the control bit clear
    seen_sig,          \* observation: a poll found the wait signature set
    seen_magic,        \* observation: a poll found the boot signature
    ok_clear,          \* observation: a read that succeeded found bit 0 clear
    ok_sig             \* observation: a read that succeeded found the
                       \* wait-instruction signature

bootVars == <<curr_proc, rb_pc, rb_proc, rb_count, rb_val, rb_status, rb_polls,
              seen_clear, seen_sig, seen_magic, ok_clear, ok_sig>>

VARIABLES
    \* ---- probes of the command available ring
    hpq_probe          \* observation: the last hal_rpu_ready call

VARIABLES
    \* ---- direct calls of hal_rpu_msg_post
    post               \* observation: the last call and its bus writes

vars == <<cmdVars, psVars, irqVars, recovery_tasklet, remVars, bootVars,
          hpq_probe, post>>

(***************************************************************************)
(* Helpers                                                                 *)
(***************************************************************************)
Range(s) == {s[i] : i \in 1..Len(s)}

\* the bytes of caller p's buffer of length L: all distinct, so that a
\* reordered, duplicated or dropped byte shows
CmdBuf(p, L) == [i \in 1..L |-> 10 * p + i]

CeilDiv(a, b) == (a + b - 1) \div b

RECURSIVE Concat(_)
Concat(msgs) ==
    IF msgs = <<>> THEN <<>> ELSE Head(msgs).data \o Concat(Tail(msgs))

SelectCall(q, c) == SelectSeq(q, LAMBDA m : m.call = c)

\* the outcomes an OS or bus primitive may have: failures are injected up to
\* MaxFaults times
Outcomes == IF faults < MaxFaults THEN BOOLEAN ELSE {TRUE}

\* nothing has happened yet in a call
NoHist == [queued |-> FALSE, any_fail |-> FALSE, timed_out |-> FALSE,
           saw_avail |-> FALSE, num_cmds_in |-> 0]

(***************************************************************************)
(* Initial state: after nrf_wifi_hal_dev_add / nrf_wifi_hal_dev_init.      *)
(***************************************************************************)
InitCmd ==
    /\ max_cmd_size \in 1..MaxCmdSize
    /\ lock_hal = NoOwner
    /\ cmd_q = <<>>
    /\ num_cmds = 0
    /\ avl_ring = <<>>
    /\ avl_pub = 0
    /\ bus_log = <<>>
    /\ freed = {}
    /\ faults = 0
    /\ pc = [p \in Callers |-> "idle"]
    /\ cmd = [p \in Callers |-> <<>>]
    /\ len = [p \in Callers |-> 0]
    /\ off = [p \in Callers |-> 0]
    /\ nfrag = [p \in Callers |-> 0]
    /\ status = [p \in Callers |-> "FAIL"]
    /\ cur = [p \in Callers |-> NoMsg]
    /\ elapsed_us = [p \in Callers |-> 0]
    /\ ret = [p \in Callers |-> "NONE"]
    /\ appended = [p \in Callers |-> <<>>]
    /\ hist = [p \in Callers |-> NoHist]

(***************************************************************************)
(* Bus and HPQ primitives.                                                 *)
(***************************************************************************)
\* hal_rpu_reg_read of cmd_avl_queue.dequeue_addr: the ring's head address,
\* or 0 when the ring holds none
AvlRegVal == IF avl_ring = <<>> THEN 0 ELSE Head(avl_ring)

\* a read of the dequeue register that succeeded and gave an address
SawAddr(rd_ok) == rd_ok /\ AvlRegVal # 0

\* a failed read taken for an address on the ring
hal_rpu_hpq_is_emptyBug(rd_ok) ==
    IF ~rd_ok THEN FALSE
    ELSE IF AvlRegVal # 0 THEN FALSE
    ELSE TRUE

\* hal_rpu_hpq_is_empty: a failed read and a read of 0 both report empty
hal_rpu_hpq_is_empty(rd_ok) ==
    IF ~rd_ok THEN TRUE
    ELSE IF AvlRegVal # 0 THEN FALSE
    ELSE TRUE

\* hal_rpu_ready for NRF_WIFI_HAL_MSG_TYPE_CMD_CTRL
hal_rpu_ready(rd_ok) ==
    IF hal_rpu_hpq_is_empty(rd_ok) THEN "FAIL" ELSE "SUCCESS"

\* the doorbell word num_cmds | 0x7fff0000, for a counter below 2^31: bits
\* 16 to 30 are set and the low 16 bits are those of the counter
DoorbellVal(n) == 2147418112 + (n % 65536)

\* the RPU publishes a free command buffer address on the available ring.
\* It hands out its NumAddrs buffers in turn.  The host reads the ring only
\* in hal_rpu_ready_wait and hal_rpu_msg_write, so a publication made at
\* another time is the same as one made when the next wait has started.
RpuPublish ==
    /\ \E p \in Callers : pc[p] = "ready_wait"
    /\ Len(avl_ring) < NumAddrs
    /\ avl_ring' = Append(avl_ring, avl_pub + 1)
    /\ avl_pub' = (avl_pub + 1) % NumAddrs
    /\ UNCHANGED <<appended, max_cmd_size, lock_hal, cmd_q, num_cmds, bus_log, freed,
                   faults, pc, cmd, len, off, nfrag, status, cur,
                   elapsed_us, ret, hist>>

(***************************************************************************)
(* nrf_wifi_hal_ctrl_cmd_send                                              *)
(***************************************************************************)
\* a take that does not wait for the lock
SpinlockFreeBug == TRUE

\* nrf_wifi_osal_spinlock_take(lock_hal) returns only when the lock is free
SpinlockFree == lock_hal = NoOwner

\* a caller enters nrf_wifi_hal_ctrl_cmd_send with a buffer of L bytes and
\* takes lock_hal
CtrlCmdSend(p) ==
    /\ pc[p] = "idle"
    /\ SpinlockFree
    /\ lock_hal' = p
    /\ \E L \in 0..MaxLen :
          /\ cmd' = [cmd EXCEPT ![p] = CmdBuf(p, L)]
          /\ len' = [len EXCEPT ![p] = L]
    /\ off' = [off EXCEPT ![p] = 0]
    /\ status' = [status EXCEPT ![p] = "FAIL"]
    /\ hist' = [hist EXCEPT ![p].num_cmds_in = num_cmds]
    /\ pc' = [pc EXCEPT ![p] = "queue"]
    /\ UNCHANGED <<appended, avl_pub, max_cmd_size, cmd_q, num_cmds, avl_ring, bus_log, freed,
                   faults, nfrag, cur, elapsed_us, ret>>

\* hal_rpu_cmd_queue: the size of the next fragment
FragSize(l, m) == IF l > m THEN m ELSE l

\* hal_rpu_cmd_queue: does the command take the fragmenting branch
Fragmented(p) == Len(cmd[p]) > max_cmd_size

\* the data pointer is not advanced past the fragments already copied
MkMsgBug(p, size) ==
    [len  |-> size,
     data |-> SubSeq(cmd[p], 1, size),
     call |-> p,
     frag |-> nfrag[p] + 1]

\* the HAL message built from size bytes at data
MkMsg(p, size) ==
    [len  |-> size,
     data |-> SubSeq(cmd[p], off[p] + 1, off[p] + size),
     call |-> p,
     frag |-> nfrag[p] + 1]

\* hal_rpu_ready_wait: has the wait for a free address lasted long enough
ReadyWaitExpired(p) == elapsed_us[p] >= MAX_HAL_RPU_READY_WAIT

\* the drain loop takes the newest message instead of the oldest
ProcessQueueHeadBug(q) ==
    IF q = <<>>
    THEN [pc |-> "out", cur |-> NoMsg, q |-> q]
    ELSE [pc |-> "ready_wait", cur |-> q[Len(q)],
          q |-> SubSeq(q, 1, Len(q) - 1)]

\* hal_rpu_cmd_process_queue, the head of the drain loop on queue q: take
\* the next message off the queue and start hal_rpu_ready_wait for it, or
\* leave the loop when the queue is empty
ProcessQueueHead(q) ==
    IF q = <<>>
    THEN [pc |-> "out", cur |-> NoMsg, q |-> q]
    ELSE [pc |-> "ready_wait", cur |-> Head(q), q |-> Tail(q)]

\* hal_rpu_cmd_process_queue after it gave up on a message: the continue
\* statement, back to the head of the loop
AfterMsgFail(q) == ProcessQueueHead(q)

\* hal_rpu_cmd_queue: one pass of the fragment loop, or the single message
\* of the unfragmented branch; a failed allocation or queue write returns
\* failure at once.  When the last message is queued the function returns
\* success and nrf_wifi_hal_ctrl_cmd_send enters hal_rpu_cmd_process_queue,
\* whose status starts as FAIL.
CmdQueue(p) ==
    /\ pc[p] = "queue"
    /\ \E ok \in Outcomes :
         LET size == IF Fragmented(p) THEN FragSize(len[p], max_cmd_size)
                     ELSE len[p]
             left == len[p] - size
             more == Fragmented(p) /\ left > 0
             q    == Append(cmd_q, MkMsg(p, size))
             h    == ProcessQueueHead(q)
         IN /\ appended' = [appended EXCEPT ![p] =
                              IF ok THEN Append(@, MkMsg(p, size)) ELSE @]
            /\ hist' = [hist EXCEPT ![p].queued = ok /\ ~more]
            /\ nfrag' = [nfrag EXCEPT ![p] = IF ok THEN @ + 1 ELSE @]
            /\ len' = [len EXCEPT ![p] = IF ok THEN left ELSE @]
            /\ off' = [off EXCEPT ![p] = IF ok THEN @ + size ELSE @]
            /\ faults' = IF ok THEN faults ELSE faults + 1
            /\ status' = [status EXCEPT ![p] =
                            IF ok /\ more THEN "SUCCESS" ELSE "FAIL"]
            /\ IF ~ok
               THEN /\ pc' = [pc EXCEPT ![p] = "out"]
                    /\ UNCHANGED <<cmd_q, cur>>
               ELSE IF more
               THEN /\ pc' = [pc EXCEPT ![p] = "queue"]
                    /\ cmd_q' = q
                    /\ UNCHANGED cur
               ELSE /\ pc' = [pc EXCEPT ![p] = h.pc]
                    /\ cmd_q' = h.q
                    /\ cur' = [cur EXCEPT ![p] = h.cur]
    /\ elapsed_us' = [elapsed_us EXCEPT ![p] = 0]
    /\ UNCHANGED <<avl_pub, max_cmd_size, lock_hal, num_cmds, avl_ring,
                   bus_log, freed, cmd, ret>>

(***************************************************************************)
(* hal_rpu_cmd_process_queue                                               *)
(***************************************************************************)
\* one pass of the hal_rpu_ready_wait loop: a probe of the available ring,
\* then the check of the elapsed time; on a timeout the caller frees the
\* message and goes on with the loop
ReadyWait(p) ==
    /\ pc[p] = "ready_wait"
    \* a failed read of the probe is not counted against MaxFaults: it has
    \* the effect of a read of 0
    /\ \E rd_ok \in BOOLEAN :
         LET h == AfterMsgFail(cmd_q)
         IN IF hal_rpu_ready(rd_ok) = "SUCCESS"
            THEN /\ status' = [status EXCEPT ![p] = "SUCCESS"]
                 /\ pc' = [pc EXCEPT ![p] = "msg_write"]
                 /\ hist' = [hist EXCEPT ![p].saw_avail = @ \/ SawAddr(rd_ok)]
                 /\ UNCHANGED <<cur, freed, cmd_q, elapsed_us>>
            ELSE IF ReadyWaitExpired(p)
            THEN /\ status' = [status EXCEPT ![p] = "FAIL"]
                 /\ freed' = freed \cup {<<cur[p].call, cur[p].frag>>}
                 /\ hist' = [hist EXCEPT ![p].timed_out = TRUE,
                                         ![p].any_fail = TRUE]
                 /\ pc' = [pc EXCEPT ![p] = h.pc]
                 /\ cur' = [cur EXCEPT ![p] = h.cur]
                 /\ cmd_q' = h.q
                 /\ elapsed_us' = [elapsed_us EXCEPT ![p] = 0]
            ELSE UNCHANGED <<status, pc, hist, cur, freed, cmd_q, elapsed_us>>
    /\ UNCHANGED <<appended, avl_pub, max_cmd_size, lock_hal, num_cmds, avl_ring,
                   bus_log, faults, cmd, len, off, nfrag, ret>>

\* hal_rpu_hpq_dequeue on the available ring: one read of the dequeue
\* register; 0 is the empty sentinel and is returned with success
HpqDequeueAddr(rd_ok) == IF rd_ok THEN AvlRegVal ELSE 0

\* the bus accesses of hal_rpu_msg_write, in the order they are made
MsgWriteSteps == <<"read", "write", "enq", "doorbell">>
StepNo(s) == CHOOSE i \in 1..Len(MsgWriteSteps) : MsgWriteSteps[i] = s

\* hal_rpu_msg_write, then the free of the message and the next pass of the
\* loop: get the address, copy the message to it, post the address on the
\* busy ring and ring the doorbell (hal_rpu_msg_post, hal_rpu_msg_trigger);
\* the first failing bus access ends it
MsgWrite(p) ==
    /\ pc[p] = "msg_write"
    /\ \E fail_at \in {"none"} \cup
                     (IF faults < MaxFaults THEN Range(MsgWriteSteps) ELSE {}) :
         LET done(s) == fail_at = "none" \/ StepNo(s) < StepNo(fail_at)
             addr  == HpqDequeueAddr(done("read"))
             m     == cur[p]
             ev(o, v) == [op |-> o, val |-> v, by |-> p,
                          call |-> m.call, frag |-> m.frag]
             h     == IF fail_at = "none" THEN ProcessQueueHead(cmd_q)
                      ELSE AfterMsgFail(cmd_q)
         IN /\ avl_ring' = IF done("read") /\ addr # 0 THEN Tail(avl_ring)
                            ELSE avl_ring
            /\ bus_log' = bus_log
                            \o (IF done("write") THEN <<ev("mem_write", addr)>>
                                ELSE <<>>)
                            \o (IF done("enq") THEN <<ev("busy_enq", addr)>>
                                ELSE <<>>)
                            \o (IF done("doorbell")
                                THEN <<ev("doorbell", DoorbellVal(num_cmds))>>
                                ELSE <<>>)
            /\ num_cmds' = IF done("doorbell") THEN num_cmds + 1 ELSE num_cmds
            /\ status' = [status EXCEPT ![p] =
                            IF fail_at = "none" THEN "SUCCESS" ELSE "FAIL"]
            /\ faults' = IF fail_at = "none" THEN faults ELSE faults + 1
            /\ hist' = [hist EXCEPT
                          ![p].any_fail = @ \/ (fail_at # "none"),
                          ![p].saw_avail = @ \/ SawAddr(done("read"))]
            /\ pc' = [pc EXCEPT ![p] = h.pc]
            /\ cur' = [cur EXCEPT ![p] = h.cur]
            /\ cmd_q' = h.q
    /\ freed' = freed \cup {<<cur[p].call, cur[p].frag>>}
    /\ elapsed_us' = [elapsed_us EXCEPT ![p] = 0]
    /\ UNCHANGED <<appended, avl_pub, max_cmd_size, lock_hal, cmd, len, off, nfrag, ret>>

\* a failure path that returns without the release
SpinlockRelBug(p) ==
    /\ pc[p] = "out"
    /\ lock_hal' = IF status[p] = "FAIL" THEN lock_hal ELSE NoOwner
    /\ ret' = [ret EXCEPT ![p] = status[p]]
    /\ pc' = [pc EXCEPT ![p] = "done"]
    /\ UNCHANGED <<appended, avl_pub, max_cmd_size, cmd_q, num_cmds, avl_ring,
                   bus_log, freed, faults, cmd, len, off, nfrag, status, cur,
                   elapsed_us, hist>>

\* the out label of nrf_wifi_hal_ctrl_cmd_send: release lock_hal and return
\* the status
SpinlockRel(p) ==
    /\ pc[p] = "out"
    /\ lock_hal' = NoOwner
    /\ ret' = [ret EXCEPT ![p] = status[p]]
    /\ pc' = [pc EXCEPT ![p] = "done"]
    /\ UNCHANGED <<appended, avl_pub, max_cmd_size, cmd_q, num_cmds, avl_ring, bus_log,
                   freed, faults, cmd, len, off, nfrag, status, cur,
                   elapsed_us, hist>>

\* time passes while a caller waits in hal_rpu_ready_wait; the elapsed time
\* is kept up to MAX_HAL_RPU_READY_WAIT, all the code compares it with
TickCmd ==
    /\ \E p \in Callers : pc[p] = "ready_wait" /\ ~ReadyWaitExpired(p)
    /\ elapsed_us' = [p \in Callers |->
                        IF pc[p] = "ready_wait" /\ ~ReadyWaitExpired(p)
                        THEN elapsed_us[p] + 1 ELSE elapsed_us[p]]
    /\ UNCHANGED <<appended, avl_pub, max_cmd_size, lock_hal, cmd_q, num_cmds, avl_ring,
                   bus_log, freed, faults, pc, cmd, len, off, nfrag, status,
                   cur, ret, hist>>

otherVars == <<psVars, irqVars, recovery_tasklet, remVars, bootVars, hpq_probe,
              post>>

NextCmd ==
    \/ \E p \in Callers : CtrlCmdSend(p) /\ UNCHANGED otherVars
    \/ \E p \in Callers : CmdQueue(p) /\ UNCHANGED otherVars
    \/ \E p \in Callers : ReadyWait(p) /\ UNCHANGED otherVars
    \/ \E p \in Callers : MsgWrite(p) /\ UNCHANGED otherVars
    \/ \E p \in Callers : SpinlockRel(p) /\ UNCHANGED otherVars
    \/ RpuPublish /\ UNCHANGED otherVars
    \/ TickCmd /\ UNCHANGED otherVars

(***************************************************************************)
(* RPU power save: hal_rpu_ps_wake and the idle-sleep timer callback       *)
(* hal_rpu_ps_sleep (NRF_WIFI_LOW_POWER with NRF_WIFI_RPU_RECOVERY).       *)
(***************************************************************************)
NoPsHist == [booted |-> FALSE, state |-> "ASLEEP", woke |-> FALSE,
             polled |-> FALSE, saw_ready |-> FALSE]

\* what a call of hal_rpu_ps_wake found at its entry
EntryHist == [NoPsHist EXCEPT !.booted = rpu_fw_booted,
                              !.state = rpu_ps_state]

\* state after nrf_wifi_hal_dev_add: hal_rpu_ps_init has run, the firmware
\* is not booted yet
InitPs ==
    /\ rpu_fw_booted = FALSE
    /\ rpu_ps_state = "ASLEEP"
    /\ rpu_ps_lock = NoOwner
    /\ rpu_ps_timer = FALSE
    /\ is_wakeup_now_asserted = FALSE
    /\ last_wakeup_now_asserted_time_ms = 0
    /\ last_wakeup_now_deasserted_time_ms = 0
    /\ last_rpu_sleep_opp_time_ms = 0
    /\ now = 0
    /\ ps_pc = [p \in Callers |-> "idle"]
    /\ ps_status = [p \in Callers |-> "FAIL"]
    /\ ps_start = [p \in Callers |-> 0]
    /\ ps_idle_start = [p \in Callers |-> 0]
    /\ ps_ret = [p \in Callers |-> "NONE"]
    /\ ps_hist = [p \in Callers |-> NoPsHist]
    /\ sleep_pc = "idle"
    /\ ps_bus = "NONE"

\* the two bits of the power status register hal_rpu_ps_wake looks at
StatusBits == {"RPU_REG_BIT_PS_STATE", "RPU_REG_BIT_READY_STATE"}
rpu_ps_state_mask == {"RPU_REG_BIT_PS_STATE", "RPU_REG_BIT_READY_STATE"}

\* (reg_val & rpu_ps_state_mask) == rpu_ps_state_mask
StatusReadyBug(reg_val) == reg_val # {}
StatusReady(reg_val) == (reg_val \cap rpu_ps_state_mask) = rpu_ps_state_mask

FwBootedBug == TRUE
FwBooted == rpu_fw_booted

AlreadyAwakeBug == FALSE
AlreadyAwake == rpu_ps_state = "AWAKE"

\* nrf_wifi_osal_time_elapsed_ms / _us
Elapsed(since) == now - since

\* did_rpu_had_sleep_opp: the new value of last_rpu_sleep_opp_time_ms
did_rpu_had_sleep_opp ==
    IF Elapsed(last_wakeup_now_deasserted_time_ms)
           > NRF_WIFI_RPU_MIN_TIME_TO_ENTER_SLEEP_MS
    THEN last_wakeup_now_deasserted_time_ms
    ELSE last_rpu_sleep_opp_time_ms

\* the outer loop condition of hal_rpu_ps_wake, negated:
\* elapsed_time_sec = elapsed_time_usec / 1000000 is not below the timeout
WakeTimedOutBug(p) == TRUE
WakeTimedOut(p) ==
    (Elapsed(ps_start[p]) \div TicksPerSec) >= RPU_PS_WAKE_TIMEOUT_S

\* a register or memory access of context p begins: it takes rpu_ps_lock
\* and calls hal_rpu_ps_wake
PsCallerTake(p) ==
    /\ ps_pc[p] \in {"idle", "done"}
    /\ rpu_ps_lock = NoOwner
    /\ rpu_ps_lock' = p
    /\ ps_pc' = [ps_pc EXCEPT ![p] = "call"]
    /\ UNCHANGED <<ps_bus, rpu_fw_booted, rpu_ps_state, rpu_ps_timer,
                   is_wakeup_now_asserted, last_wakeup_now_asserted_time_ms,
                   last_wakeup_now_deasserted_time_ms,
                   last_rpu_sleep_opp_time_ms, now, ps_status, ps_start,
                   ps_idle_start, ps_ret, ps_hist, sleep_pc,
                   recovery_tasklet>>

\* hal_rpu_ps_wake has returned: the caller releases rpu_ps_lock; the
\* locals of the finished call are gone
PsCallerRel(p) ==
    /\ ps_pc[p] = "ret"
    /\ rpu_ps_lock' = NoOwner
    /\ ps_pc' = [ps_pc EXCEPT ![p] = "done"]
    /\ ps_start' = [ps_start EXCEPT ![p] = 0]
    /\ ps_idle_start' = [ps_idle_start EXCEPT ![p] = 0]
    /\ UNCHANGED <<ps_bus, rpu_fw_booted, rpu_ps_state, rpu_ps_timer,
                   is_wakeup_now_asserted, last_wakeup_now_asserted_time_ms,
                   last_wakeup_now_deasserted_time_ms,
                   last_rpu_sleep_opp_time_ms, now, ps_status, ps_ret,
                   ps_hist, sleep_pc, recovery_tasklet>>

\* entry of hal_rpu_ps_wake up to the settle delay
PsWakeEnter(p) ==
    /\ ps_pc[p] = "call"
    /\ IF ~FwBooted
       THEN \* return NRF_WIFI_STATUS_SUCCESS, nothing else
            /\ ps_pc' = [ps_pc EXCEPT ![p] = "ret"]
            /\ ps_ret' = [ps_ret EXCEPT ![p] = "SUCCESS"]
            /\ ps_hist' = [ps_hist EXCEPT ![p] = EntryHist]
            /\ ps_status' = [ps_status EXCEPT ![p] = "FAIL"]
            /\ UNCHANGED <<rpu_ps_timer, is_wakeup_now_asserted,
                           last_wakeup_now_asserted_time_ms, ps_start,
                           ps_bus>>
       ELSE IF AlreadyAwake
       THEN \* status = SUCCESS; goto out: the timer is scheduled
            /\ ps_pc' = [ps_pc EXCEPT ![p] = "ret"]
            /\ ps_ret' = [ps_ret EXCEPT ![p] = "SUCCESS"]
            /\ ps_hist' = [ps_hist EXCEPT ![p] = EntryHist]
            /\ ps_status' = [ps_status EXCEPT ![p] = "SUCCESS"]
            /\ rpu_ps_timer' = TRUE
            /\ UNCHANGED <<is_wakeup_now_asserted,
                           last_wakeup_now_asserted_time_ms, ps_start,
                           ps_bus>>
       ELSE \* nrf_wifi_bal_rpu_ps_wake, then the timestamps
            /\ ps_pc' = [ps_pc EXCEPT ![p] = "delay"]
            /\ ps_hist' = [ps_hist EXCEPT ![p] =
                              [EntryHist EXCEPT !.woke = TRUE]]
            /\ ps_status' = [ps_status EXCEPT ![p] = "FAIL"]
            /\ ps_bus' = "WAKE"
            /\ is_wakeup_now_asserted' = TRUE
            /\ last_wakeup_now_asserted_time_ms' = now
            /\ ps_start' = [ps_start EXCEPT ![p] = now]
            /\ UNCHANGED <<rpu_ps_timer, ps_ret>>
    /\ UNCHANGED <<rpu_fw_booted, rpu_ps_state, rpu_ps_lock,
                   last_wakeup_now_deasserted_time_ms,
                   last_rpu_sleep_opp_time_ms, now, ps_idle_start, sleep_pc,
                   recovery_tasklet>>

\* nrf_wifi_osal_delay_us(1000)
PsDelay(p) ==
    /\ ps_pc[p] = "delay"
    /\ Elapsed(ps_start[p]) >= SettleDelay
    /\ ps_pc' = [ps_pc EXCEPT ![p] = "poll"]
    /\ UNCHANGED <<ps_bus, rpu_fw_booted, rpu_ps_state, rpu_ps_lock, rpu_ps_timer,
                   is_wakeup_now_asserted, last_wakeup_now_asserted_time_ms,
                   last_wakeup_now_deasserted_time_ms,
                   last_rpu_sleep_opp_time_ms, now, ps_status, ps_start,
                   ps_idle_start, ps_ret, ps_hist, sleep_pc,
                   recovery_tasklet>>

\* one read of the power status register; when both bits are set the loop
\* is left, the state becomes AWAKE and the function returns through out
PsPoll(p) ==
    /\ ps_pc[p] = "poll"
    /\ \E reg_val \in SUBSET StatusBits :
         IF StatusReady(reg_val)
         THEN /\ ps_status' = [ps_status EXCEPT ![p] = "SUCCESS"]
              /\ ps_hist' = [ps_hist EXCEPT ![p].polled = TRUE,
                                            ![p].saw_ready =
                                                reg_val = StatusBits]
              /\ rpu_ps_state' = "AWAKE"
              /\ last_rpu_sleep_opp_time_ms' = did_rpu_had_sleep_opp
              /\ rpu_ps_timer' = TRUE
              /\ ps_ret' = [ps_ret EXCEPT ![p] = "SUCCESS"]
              /\ ps_pc' = [ps_pc EXCEPT ![p] = "ret"]
              /\ UNCHANGED ps_idle_start
         ELSE /\ ps_hist' = [ps_hist EXCEPT ![p].polled = TRUE]
              /\ ps_idle_start' = [ps_idle_start EXCEPT ![p] = now]
              /\ ps_pc' = [ps_pc EXCEPT ![p] = "idle_wait"]
              /\ UNCHANGED <<ps_status, rpu_ps_state,
                             last_rpu_sleep_opp_time_ms, rpu_ps_timer,
                             ps_ret>>
    /\ UNCHANGED <<ps_bus, rpu_fw_booted, rpu_ps_lock, is_wakeup_now_asserted,
                   last_wakeup_now_asserted_time_ms,
                   last_wakeup_now_deasserted_time_ms, now, ps_start,
                   sleep_pc, recovery_tasklet>>

\* the inner busy wait of RPU_PS_WAKE_INTERVAL_MS, then the outer loop
\* condition; when the loop ends here status is still FAIL: the recovery
\* tasklet is scheduled and the function returns through out
PsIdleWait(p) ==
    /\ ps_pc[p] = "idle_wait"
    /\ Elapsed(ps_idle_start[p]) >= RPU_PS_WAKE_INTERVAL_MS
    /\ IF WakeTimedOut(p)
       THEN /\ recovery_tasklet' = TRUE
            /\ rpu_ps_timer' = TRUE
            /\ ps_ret' = [ps_ret EXCEPT ![p] = ps_status[p]]
            /\ ps_pc' = [ps_pc EXCEPT ![p] = "ret"]
       ELSE /\ ps_pc' = [ps_pc EXCEPT ![p] = "poll"]
            /\ UNCHANGED <<recovery_tasklet, rpu_ps_timer, ps_ret>>
    /\ UNCHANGED <<ps_bus, rpu_fw_booted, rpu_ps_state, rpu_ps_lock,
                   is_wakeup_now_asserted, last_wakeup_now_asserted_time_ms,
                   last_wakeup_now_deasserted_time_ms,
                   last_rpu_sleep_opp_time_ms, now, ps_status, ps_start,
                   ps_idle_start, ps_hist, sleep_pc>>

PsLockTakenBug == TRUE
\* hal_rpu_ps_sleep: nrf_wifi_osal_spinlock_irq_take returns once
\* rpu_ps_lock is free
PsLockTaken == rpu_ps_lock = NoOwner

\* the idle-sleep timer expires: hal_rpu_ps_sleep starts and takes
\* rpu_ps_lock
PsTimerFire ==
    /\ rpu_ps_timer
    /\ sleep_pc = "idle"
    /\ PsLockTaken
    /\ rpu_ps_timer' = FALSE
    /\ rpu_ps_lock' = TimerCtx
    /\ sleep_pc' = "locked"
    /\ UNCHANGED <<ps_bus, rpu_fw_booted, rpu_ps_state, is_wakeup_now_asserted,
                   last_wakeup_now_asserted_time_ms,
                   last_wakeup_now_deasserted_time_ms,
                   last_rpu_sleep_opp_time_ms, now, ps_pc, ps_status,
                   ps_start, ps_idle_start, ps_ret, ps_hist,
                   recovery_tasklet>>

\* hal_rpu_ps_sleep signals sleep to the bus and records the time
PsSleepBus ==
    /\ sleep_pc = "locked"
    /\ ps_bus' = "SLEEP"
    /\ is_wakeup_now_asserted' = FALSE
    /\ last_wakeup_now_deasserted_time_ms' = now
    /\ sleep_pc' = "signalled"
    /\ UNCHANGED <<rpu_fw_booted, rpu_ps_state, rpu_ps_lock, rpu_ps_timer,
                   last_wakeup_now_asserted_time_ms,
                   last_rpu_sleep_opp_time_ms, now, ps_pc, ps_status,
                   ps_start, ps_idle_start, ps_ret, ps_hist,
                   recovery_tasklet>>

\* the rest of hal_rpu_ps_sleep: the state and the release of rpu_ps_lock
hal_rpu_ps_sleep ==
    /\ sleep_pc = "signalled"
    /\ rpu_ps_state' = "ASLEEP"
    /\ rpu_ps_lock' = NoOwner
    /\ sleep_pc' = "idle"
    /\ UNCHANGED <<ps_bus, rpu_fw_booted, rpu_ps_timer,
                   is_wakeup_now_asserted, last_wakeup_now_asserted_time_ms,
                   last_wakeup_now_deasserted_time_ms,
                   last_rpu_sleep_opp_time_ms, now, ps_pc, ps_status,
                   ps_start, ps_idle_start, ps_ret, ps_hist,
                   recovery_tasklet>>

\* the OSAL clock advances
TickPs ==
    /\ now < MaxTime
    /\ now' = now + 1
    /\ UNCHANGED <<ps_bus, rpu_fw_booted, rpu_ps_state, rpu_ps_lock, rpu_ps_timer,
                   is_wakeup_now_asserted, last_wakeup_now_asserted_time_ms,
                   last_wakeup_now_deasserted_time_ms,
                   last_rpu_sleep_opp_time_ms, ps_pc, ps_status, ps_start,
                   ps_idle_start, ps_ret, ps_hist, sleep_pc,
                   recovery_tasklet>>

(***************************************************************************)
(* Interrupt path: nrf_wifi_hal_irq_handler, nrf_wifi_hal_enable/disable   *)
(* and the two deferred-work units.                                        *)
(***************************************************************************)
NoIrqHist == [enabled |-> FALSE, processed |-> FALSE, ok |-> FALSE,
              recovery |-> FALSE, enq |-> 0, sched |-> {}]

\* state after nrf_wifi_hal_dev_add; nrf_wifi_hal_enable runs at the end of
\* nrf_wifi_hal_dev_init
InitIrq ==
    /\ hal_status = "DISABLED"
    /\ lock_rx = NoOwner
    /\ event_q = <<>>
    /\ event_tasklet = FALSE
    /\ recovery_tasklet = FALSE
    /\ ev_seq = 0
    /\ delivered = <<>>
    /\ event_freed = <<>>
    /\ evt_pc = "idle"
    /\ evt_status = "NONE"
    /\ irq_pc = "idle"
    /\ irq_status = "NONE"
    /\ irq_hist = NoIrqHist

InitRem ==
    /\ td_pc = "idle"
    /\ rem_i = 1
    /\ drain_ev = 0


\* nrf_wifi_hal_dev_init: the firmware is marked booted first; the HAL is
\* enabled (under lock_rx) only when the bus init and the two reads succeed
nrf_wifi_hal_dev_init ==
    /\ ~rpu_fw_booted
    /\ rpu_fw_booted' = TRUE
    /\ \E ok \in BOOLEAN :
         IF ok
         THEN /\ lock_rx = NoOwner
              /\ hal_status' = "ENABLED"
         ELSE UNCHANGED hal_status
    /\ UNCHANGED <<rpu_ps_state, rpu_ps_lock, rpu_ps_timer,
                   is_wakeup_now_asserted, last_wakeup_now_asserted_time_ms,
                   last_wakeup_now_deasserted_time_ms,
                   last_rpu_sleep_opp_time_ms, now, ps_pc, ps_status,
                   ps_start, ps_idle_start, ps_ret, ps_hist, sleep_pc,
                   ps_bus, recovery_tasklet, lock_rx, event_q, event_tasklet,
                   ev_seq, delivered, event_freed, evt_pc, evt_status, irq_pc,
                   irq_status, irq_hist>>

nrf_wifi_hal_enable ==
    /\ lock_rx = NoOwner
    /\ hal_status' = "ENABLED"
    /\ UNCHANGED <<lock_rx, event_q, event_tasklet, recovery_tasklet,
                   ev_seq, delivered, event_freed, evt_pc, evt_status, irq_pc,
                   irq_status, irq_hist>>

nrf_wifi_hal_disable ==
    /\ lock_rx = NoOwner
    /\ hal_status' = "DISABLED"
    /\ UNCHANGED <<lock_rx, event_q, event_tasklet, recovery_tasklet,
                   ev_seq, delivered, event_freed, evt_pc, evt_status, irq_pc,
                   irq_status, irq_hist>>

\* an interrupt is delivered: the handler takes lock_rx
IrqEnter ==
    /\ irq_pc = "idle"
    /\ lock_rx = NoOwner
    /\ lock_rx' = IrqCtx
    /\ irq_pc' = "locked"
    /\ irq_status' = "FAIL"
    /\ irq_hist' = NoIrqHist
    /\ UNCHANGED <<hal_status, event_q, event_tasklet, recovery_tasklet,
                   ev_seq, delivered, event_freed, evt_pc, evt_status>>

\* what hal_rpu_irq_process can report: its status, whether recovery is
\* needed, and how many event buffers it allocated and put on event_q
IrqResults ==
    [ok : BOOLEAN, do_rpu_recovery : BOOLEAN, n : 0..(MaxEvents - ev_seq)]

\* hal_rpu_irq_process: the new contents of event_q
hal_rpu_irq_process(n) ==
    event_q \o [i \in 1..n |-> ev_seq + i]

\* the deferred-work units the handler schedules after hal_rpu_irq_process
IrqSchedulesBug(ok, do_rpu_recovery) ==
    IF ~ok THEN {}
    ELSE IF do_rpu_recovery THEN {"recovery_tasklet", "event_tasklet"}
    ELSE {"event_tasklet"}

IrqSchedules(ok, do_rpu_recovery) ==
    IF ~ok THEN {}
    ELSE IF do_rpu_recovery THEN {"recovery_tasklet"}
    ELSE {"event_tasklet"}

\* the body of nrf_wifi_hal_irq_handler, under lock_rx
IrqProcess ==
    /\ irq_pc = "locked"
    /\ irq_pc' = "out"
    /\ IF hal_status # "ENABLED"
       THEN /\ irq_status' = "SUCCESS"
            /\ irq_hist' = NoIrqHist
            /\ UNCHANGED <<event_q, ev_seq, event_tasklet, recovery_tasklet>>
       ELSE \E r \in IrqResults :
              LET sched == IrqSchedules(r.ok, r.do_rpu_recovery) IN
              /\ event_q' = hal_rpu_irq_process(r.n)
              /\ ev_seq' = ev_seq + r.n
              /\ irq_status' = IF r.ok THEN "SUCCESS" ELSE "FAIL"
              /\ recovery_tasklet' =
                     (recovery_tasklet \/ "recovery_tasklet" \in sched)
              /\ event_tasklet' =
                     (event_tasklet \/ "event_tasklet" \in sched)
              /\ irq_hist' = [enabled |-> TRUE, processed |-> TRUE,
                              ok |-> r.ok, recovery |-> r.do_rpu_recovery,
                              enq |-> r.n, sched |-> sched]
    /\ UNCHANGED <<hal_status, lock_rx, delivered, event_freed, evt_pc,
                   evt_status>>

\* out: lock_rx is released and status is returned
IrqRel ==
    /\ irq_pc = "out"
    /\ lock_rx' = NoOwner
    /\ irq_pc' = "idle"
    /\ UNCHANGED <<hal_status, event_q, event_tasklet, recovery_tasklet,
                   ev_seq, delivered, event_freed, evt_pc, evt_status, irq_status, irq_hist>>

\* the event deferred-work unit starts: it takes lock_rx and calls
\* hal_rpu_eventq_process
EventTaskletTake ==
    /\ event_tasklet
    /\ evt_pc = "idle"
    /\ lock_rx = NoOwner
    /\ lock_rx' = TaskletCtx
    /\ event_tasklet' = FALSE
    /\ evt_pc' = "process"
    /\ evt_status' = "SUCCESS"
    /\ UNCHANGED <<hal_status, event_q, recovery_tasklet, ev_seq, delivered,
                   event_freed, irq_pc, irq_status, irq_hist>>

\* hal_rpu_eventq_process after the callback returned ok for an event: the
\* buffer is freed and the loop goes on, whatever the callback returned
AfterCallbkBug(ok) == IF ok THEN "process" ELSE "out"
AfterCallbk(ok) == "process"

\* one pass of the loop of hal_rpu_eventq_process: dequeue an event, hand
\* it to intr_callbk_fn, free it; with the queue empty, return status
hal_rpu_eventq_process ==
    /\ evt_pc = "process"
    /\ IF event_q = <<>>
       THEN /\ evt_pc' = "out"
            /\ UNCHANGED <<event_q, delivered, event_freed, evt_status>>
       ELSE \E ok \in BOOLEAN :
              /\ event_q' = Tail(event_q)
              /\ delivered' = Append(delivered,
                                      [ev |-> Head(event_q), ok |-> ok])
              /\ evt_status' = IF ok THEN "SUCCESS" ELSE "FAIL"
              /\ event_freed' = Append(event_freed, Head(event_q))
              /\ evt_pc' = AfterCallbk(ok)
    /\ UNCHANGED <<hal_status, lock_rx, event_tasklet, recovery_tasklet,
                   ev_seq, irq_pc, irq_status, irq_hist>>

\* hal_rpu_eventq_process has returned: the deferred-work unit releases
\* lock_rx
EventTaskletRel ==
    /\ evt_pc = "out"
    /\ lock_rx' = NoOwner
    /\ evt_pc' = "idle"
    /\ UNCHANGED <<hal_status, event_q, event_tasklet, recovery_tasklet,
                   ev_seq, delivered, event_freed, evt_status, irq_pc,
                   irq_status, irq_hist>>

\* the recovery deferred-work unit runs
RecoveryTasklet ==
    /\ recovery_tasklet
    /\ recovery_tasklet' = FALSE
    /\ UNCHANGED <<hal_status, lock_rx, event_q, event_tasklet, ev_seq, delivered, event_freed, evt_pc, evt_status,
                   irq_pc, irq_status, irq_hist>>

(***************************************************************************)
(* Teardown: nrf_wifi_hal_dev_deinit and nrf_wifi_hal_dev_rem.             *)
(***************************************************************************)
irqOnly == <<irq_pc, irq_status, irq_hist>>

\* the statements of nrf_wifi_hal_dev_rem, in the order of the source
RemSteps ==
    << "kill_recovery_tasklet", "free_recovery_tasklet", "free_lock_recovery",
       "kill_event_tasklet", "free_event_tasklet", "drain",
       "free_lock_hal", "free_lock_rx", "free_event_q", "free_cmd_q",
       "kill_rpu_ps_timer", "free_rpu_ps_timer", "free_rpu_ps_lock",
       "bal_dev_rem", "free_tx_buf_info", "free_rx_buf_info",
       "free_hal_dev_ctx" >>

\* the statements nrf_wifi_hal_dev_rem has executed so far
RemDone == SubSeq(RemSteps, 1, rem_i - 1)

\* interrupts are delivered through the bus layer until it is removed
BusAttached == "bal_dev_rem" \notin Range(RemDone)

\* hal_rpu_eventq_drain is the running statement of the teardown context
InDrain ==
    \/ td_pc = "deinit_drain"
    \/ td_pc = "rem" /\ RemSteps[rem_i] = "drain"

\* nrf_wifi_hal_dev_deinit, first statement: nrf_wifi_hal_disable
DeinitDisable ==
    /\ td_pc = "idle"
    /\ lock_rx = NoOwner
    /\ hal_status' = "DISABLED"
    /\ td_pc' = "deinit_bal"
    /\ UNCHANGED <<lock_rx, event_q, event_tasklet, recovery_tasklet, ev_seq,
                   delivered, event_freed, evt_pc, evt_status, irqOnly,
                   rem_i, drain_ev>>

\* nrf_wifi_hal_dev_deinit, second statement: nrf_wifi_bal_dev_deinit
DeinitBal ==
    /\ td_pc = "deinit_bal"
    /\ td_pc' = "deinit_drain"
    /\ UNCHANGED <<irqVars, recovery_tasklet, rem_i, drain_ev>>

\* hal_rpu_eventq_drain: take lock_rx, dequeue, release; NULL ends the loop
DrainDequeue ==
    /\ InDrain
    /\ drain_ev = 0
    /\ lock_rx = NoOwner
    /\ IF event_q = <<>>
       THEN /\ td_pc' = IF td_pc = "deinit_drain" THEN "deinit_done" ELSE "rem"
            /\ rem_i' = IF td_pc = "rem" THEN rem_i + 1 ELSE rem_i
            /\ UNCHANGED <<event_q, drain_ev>>
       ELSE /\ drain_ev' = Head(event_q)
            /\ event_q' = Tail(event_q)
            /\ UNCHANGED <<td_pc, rem_i>>
    /\ UNCHANGED <<hal_status, lock_rx, event_tasklet, recovery_tasklet, ev_seq,
                   delivered, event_freed, evt_pc, evt_status, irqOnly>>

DrainLoopsBug == FALSE
\* hal_rpu_eventq_drain: while (1)
DrainLoops == TRUE

\* hal_rpu_eventq_drain: free the event, no callback
DrainFree ==
    /\ InDrain
    /\ drain_ev # 0
    /\ event_freed' = Append(event_freed, drain_ev)
    /\ drain_ev' = 0
    /\ IF DrainLoops
       THEN UNCHANGED <<td_pc, rem_i>>
       ELSE /\ td_pc' = IF td_pc = "deinit_drain" THEN "deinit_done" ELSE "rem"
            /\ rem_i' = IF td_pc = "rem" THEN rem_i + 1 ELSE rem_i
    /\ UNCHANGED <<hal_status, lock_rx, event_q, event_tasklet,
                   recovery_tasklet, ev_seq, delivered, evt_pc, evt_status,
                   irqOnly>>

\* nrf_wifi_hal_dev_rem: one statement other than the drain
RemStep ==
    /\ td_pc \in {"idle", "deinit_done", "rem"}
    /\ rem_i <= Len(RemSteps)
    /\ RemSteps[rem_i] # "drain"
    /\ RemSteps[rem_i] = "kill_event_tasklet" => evt_pc = "idle"
    /\ event_tasklet' = IF RemSteps[rem_i] = "kill_event_tasklet"
                        THEN FALSE ELSE event_tasklet
    /\ recovery_tasklet' = IF RemSteps[rem_i] = "kill_recovery_tasklet"
                           THEN FALSE ELSE recovery_tasklet
    /\ rem_i' = rem_i + 1
    /\ td_pc' = IF rem_i = Len(RemSteps) THEN "rem_done" ELSE "rem"
    /\ UNCHANGED <<hal_status, lock_rx, event_q, ev_seq, delivered,
                   event_freed, evt_pc, evt_status, irqOnly, drain_ev>>

(***************************************************************************)
(* Processor reset and firmware boot check.                                *)
(***************************************************************************)
RPU_PROC_TYPE_MCU_LMAC == "LMAC"
RPU_PROC_TYPE_MCU_UMAC == "UMAC"
RPU_PROC_TYPE_MAX == "MAX"
RpuProcs == {RPU_PROC_TYPE_MCU_LMAC, RPU_PROC_TYPE_MCU_UMAC, RPU_PROC_TYPE_MAX}

\* nrf_wifi_hal_poll_reg: unsigned int count = 50
PollCount == 50
MCU_FW_BOOT_TIMEOUT_MS == 1000

\* an unsigned int is held as its 32-bit pattern: 0xFFFFFFFF is written -1
UIntDec(c) == IF c = 0 THEN -1 ELSE c - 1

\* what a read of the boot signature address can return
BootVals == {"0", "LMAC_SIG", "UMAC_SIG"}

\* exp_val of nrf_wifi_hal_fw_chk_boot
ExpVal(proc) ==
    IF proc = RPU_PROC_TYPE_MCU_LMAC THEN "LMAC_SIG"
    ELSE IF proc = RPU_PROC_TYPE_MCU_UMAC THEN "UMAC_SIG"
    ELSE "0"

InitBoot ==
    /\ curr_proc = RPU_PROC_TYPE_MCU_LMAC
    /\ rb_pc = "idle"
    /\ rb_proc = RPU_PROC_TYPE_MCU_LMAC
    /\ rb_count = 0
    /\ rb_val = 0
    /\ rb_status = "FAIL"
    /\ rb_polls = 0
    /\ seen_clear = FALSE
    /\ seen_sig = FALSE
    /\ seen_magic = FALSE
    /\ ok_clear = FALSE
    /\ ok_sig = FALSE

nrf_wifi_hal_proc_ctx_set(proc) ==
    /\ rb_pc = "idle"
    /\ curr_proc' = proc
    /\ UNCHANGED <<rb_pc, rb_proc, rb_count, rb_val, rb_status, rb_polls,
                   seen_clear, seen_sig, seen_magic, ok_clear, ok_sig>>

\* nrf_wifi_hal_proc_reset up to the first poll: argument check, curr_proc,
\* pulsed soft reset (wr_ok: the register write succeeds)
ProcResetCall(proc, wr_ok) ==
    /\ rb_pc = "idle"
    /\ rb_proc' = proc
    /\ rb_polls' = 0
    /\ seen_clear' = FALSE
    /\ seen_sig' = FALSE
    /\ seen_magic' = FALSE
    /\ ok_clear' = FALSE
    /\ ok_sig' = FALSE
    /\ rb_val' = 0
    /\ rb_count' = PollCount
    /\ IF proc \notin {RPU_PROC_TYPE_MCU_LMAC, RPU_PROC_TYPE_MCU_UMAC}
       THEN /\ rb_status' = "FAIL"
            /\ rb_pc' = "reset_out"
            /\ UNCHANGED curr_proc
       ELSE /\ curr_proc' = proc
            /\ rb_status' = IF wr_ok THEN "SUCCESS" ELSE "FAIL"
            /\ rb_pc' = IF wr_ok THEN "poll_ctrl" ELSE "reset_out"

\* nrf_wifi_hal_poll_reg, the test after the loop
PollTimedOut(count) == count = 0

\* the value nrf_wifi_hal_poll_reg tests after hal_rpu_reg_read: a read that
\* failed has left val as it was
PollVal(rd_ok, v) == IF rd_ok THEN v ELSE rb_val

\* nrf_wifi_hal_poll_reg: one pass of the do-while loop, with the code after
\* the loop when the pass leaves it; req is the required value of bit 0
PollReg(req, rd_ok, v) ==
    LET val == PollVal(rd_ok, v)
        st == IF rd_ok THEN "SUCCESS" ELSE "FAIL"
        hit == val = req
        again == ~hit /\ rb_count # 0
        count == IF hit THEN rb_count ELSE UIntDec(rb_count)
        res == IF PollTimedOut(count) THEN "FAIL"
               ELSE IF hit THEN "SUCCESS" ELSE st
    IN  /\ rb_val' = IF ~again /\ rb_pc = "poll_ctrl" /\ res = "SUCCESS"
                       THEN 0 ELSE val
        /\ rb_polls' = IF ~again /\ rb_pc = "poll_ctrl" /\ res = "SUCCESS"
                       THEN 0 ELSE rb_polls + 1
        /\ IF again
           THEN /\ rb_count' = count
                /\ rb_status' = st
                /\ UNCHANGED rb_pc
           ELSE /\ rb_status' = res
                /\ IF rb_pc = "poll_ctrl" /\ res = "SUCCESS"
                   THEN /\ rb_pc' = "poll_wait"
                        /\ rb_count' = PollCount
                   ELSE /\ rb_pc' = "reset_out"
                        /\ rb_count' = count

\* wait for the core to come out of reset: bit 0 of the control register is 0
PollCtrl(rd_ok, v) ==
    /\ rb_pc = "poll_ctrl"
    /\ PollReg(0, rd_ok, v)
    /\ seen_clear' = (seen_clear \/ PollVal(rd_ok, v) = 0)
    /\ ok_clear' = (ok_clear \/ (rd_ok /\ v = 0))
    /\ UNCHANGED <<curr_proc, rb_proc, seen_sig, seen_magic, ok_sig>>

\* wait for the default wait instruction: bit 0 of the signature word is 1
PollWait(rd_ok, v) ==
    /\ rb_pc = "poll_wait"
    /\ PollReg(1, rd_ok, v)
    /\ seen_sig' = (seen_sig \/ PollVal(rd_ok, v) = 1)
    /\ ok_sig' = (ok_sig \/ (rd_ok /\ v = 1))
    /\ UNCHANGED <<curr_proc, rb_proc, seen_clear, seen_magic, ok_clear>>

ExitProcBug == curr_proc
\* out: hal_dev_ctx->curr_proc = RPU_PROC_TYPE_MCU_LMAC
ExitProc == RPU_PROC_TYPE_MCU_LMAC

ProcResetOut ==
    /\ rb_pc = "reset_out"
    /\ curr_proc' = ExitProc
    /\ rb_pc' = "reset_ret"
    /\ UNCHANGED <<rb_proc, rb_count, rb_val, rb_status, rb_polls, seen_clear,
                   seen_sig, seen_magic, ok_clear, ok_sig>>

\* nrf_wifi_hal_fw_chk_boot up to the loop
FwChkBootCall(proc) ==
    /\ rb_pc = "idle"
    /\ rb_proc' = proc
    /\ curr_proc' = proc
    /\ rb_count' = MCU_FW_BOOT_TIMEOUT_MS \div 10
    /\ rb_val' = "0"
    /\ rb_status' = "FAIL"
    /\ rb_polls' = 0
    /\ seen_clear' = FALSE
    /\ seen_sig' = FALSE
    /\ seen_magic' = FALSE
    /\ ok_clear' = FALSE
    /\ ok_sig' = FALSE
    /\ rb_pc' = "boot_loop"

\* nrf_wifi_hal_fw_chk_boot: the test of the while loop and one pass of it
FwChkBootPoll(rd_ok, v) ==
    /\ rb_pc = "boot_loop"
    /\ rb_count' = rb_count - 1
    /\ IF rb_count > 0
       THEN LET val == IF rd_ok THEN v ELSE rb_val
            IN  /\ rb_val' = val
                /\ rb_status' = IF rd_ok THEN "SUCCESS" ELSE "FAIL"
                /\ rb_polls' = rb_polls + 1
                /\ seen_magic' = (seen_magic \/ val = ExpVal(rb_proc))
                /\ rb_pc' = IF val = ExpVal(rb_proc)
                            THEN "boot_after" ELSE "boot_loop"
       ELSE /\ rb_pc' = "boot_after"
            /\ UNCHANGED <<rb_val, rb_status, rb_polls, seen_magic>>
    /\ UNCHANGED <<curr_proc, rb_proc, seen_clear, seen_sig, ok_clear, ok_sig>>

\* nrf_wifi_hal_fw_chk_boot: the test after the loop, and out
FwChkBootOut ==
    /\ rb_pc = "boot_after"
    /\ rb_status' = IF rb_count <= 0 THEN "FAIL" ELSE "SUCCESS"
    /\ curr_proc' = ExitProc
    /\ rb_pc' = "boot_ret"
    /\ UNCHANGED <<rb_proc, rb_count, rb_val, rb_polls, seen_clear, seen_sig,
                   seen_magic, ok_clear, ok_sig>>

\* the caller has the result
RbReturn ==
    /\ rb_pc \in {"reset_ret", "boot_ret"}
    /\ rb_pc' = "idle"
    /\ UNCHANGED <<curr_proc, rb_proc, rb_count, rb_val, rb_status, rb_polls,
                   seen_clear, seen_sig, seen_magic, ok_clear, ok_sig>>

(***************************************************************************)
(* Probes of the command available ring.                                   *)
(***************************************************************************)
\* the addresses the RPU can publish and the entries the ring can hold
HpqMaxAddr == 3
HpqMaxLen == 2

NoProbe == [made |-> FALSE, rd_ok |-> FALSE, val |-> 0, empty |-> FALSE,
            ready |-> "FAIL"]

InitHpq == hpq_probe = NoProbe

\* the RPU publishes an address on the command available ring
HpqPublish(a) ==
    /\ Len(avl_ring) < HpqMaxLen
    /\ avl_ring' = Append(avl_ring, a)
    /\ UNCHANGED <<max_cmd_size, lock_hal, cmd_q, num_cmds, avl_pub, bus_log,
                   freed, faults, pc, cmd, len, off, nfrag, status, cur,
                   elapsed_us, ret, appended, hist, hpq_probe>>

\* the ring loses its head entry
HpqConsume ==
    /\ avl_ring # <<>>
    /\ avl_ring' = Tail(avl_ring)
    /\ UNCHANGED <<max_cmd_size, lock_hal, cmd_q, num_cmds, avl_pub, bus_log,
                   freed, faults, pc, cmd, len, off, nfrag, status, cur,
                   elapsed_us, ret, appended, hist, hpq_probe>>

\* hal_rpu_ready(NRF_WIFI_HAL_MSG_TYPE_CMD_CTRL); rd_ok: the register read
\* of hal_rpu_hpq_is_empty succeeds
HpqProbe(rd_ok) ==
    /\ hpq_probe' = [made |-> TRUE, rd_ok |-> rd_ok, val |-> AvlRegVal,
                     empty |-> hal_rpu_hpq_is_empty(rd_ok),
                     ready |-> hal_rpu_ready(rd_ok)]
    /\ UNCHANGED cmdVars

(***************************************************************************)
(* hal_rpu_msg_post and hal_rpu_msg_trigger, called for every message type.*)
(***************************************************************************)
MsgTypes == {"CMD_CTRL", "CMD_DATA_TX", "CMD_DATA_RX", "MAX"}
MAX_NUM_OF_RX_QUEUES == 3

\* most posts that ring the doorbell in one run
MaxPosts == 3

NoPost == [made |-> FALSE, msg_type |-> "MAX", queue_id |-> 0,
           num_cmds_in |-> 0, writes |-> <<>>, status |-> "FAIL"]

InitPost == post = NoPost

\* the busy ring hal_rpu_msg_post selects, "none" for an invalid type
BusyQueue(msg_type, queue_id) ==
    IF msg_type \in {"CMD_CTRL", "CMD_DATA_TX"} THEN <<"cmd_busy_queue">>
    ELSE IF msg_type = "CMD_DATA_RX" THEN <<"rx_buf_busy_queue", queue_id>>
    ELSE <<"none">>

RingsDoorbellBug(msg_type) == TRUE
\* hal_rpu_msg_post: msg_type != NRF_WIFI_HAL_MSG_TYPE_CMD_DATA_RX
RingsDoorbell(msg_type) == msg_type # "CMD_DATA_RX"

\* hal_rpu_msg_post(msg_type, queue_id, msg_addr); enq_ok and wr_ok: the
\* busy-ring enqueue and the doorbell register write succeed
hal_rpu_msg_post(msg_type, queue_id, msg_addr, enq_ok, wr_ok) ==
    LET q == BusyQueue(msg_type, queue_id)
        valid == queue_id < MAX_NUM_OF_RX_QUEUES /\ q # <<"none">>
        enq == valid
        trig == enq /\ enq_ok /\ RingsDoorbell(msg_type)
        w == (IF enq THEN <<[op |-> "busy_enq", q |-> q, val |-> msg_addr,
                             ok |-> enq_ok]>>
              ELSE <<>>)
             \o (IF trig THEN <<[op |-> "doorbell", q |-> <<"none">>,
                                 val |-> DoorbellVal(num_cmds),
                                 ok |-> wr_ok]>>
                 ELSE <<>>)
        st == IF ~valid \/ ~enq_ok THEN "FAIL"
              ELSE IF trig /\ ~wr_ok THEN "FAIL"
              ELSE "SUCCESS"
    IN  /\ num_cmds < MaxPosts
        /\ num_cmds' = IF trig /\ wr_ok THEN num_cmds + 1 ELSE num_cmds
        /\ post' = [made |-> TRUE, msg_type |-> msg_type,
                    queue_id |-> queue_id, num_cmds_in |-> num_cmds,
                    writes |-> w, status |-> st]
        /\ UNCHANGED <<max_cmd_size, lock_hal, cmd_q, avl_ring, avl_pub,
                       bus_log, freed, faults, pc, cmd, len, off, nfrag,
                       status, cur, elapsed_us, ret, appended, hist>>

(***************************************************************************)
(* The specifications.                                               *)
(***************************************************************************)
Init == InitCmd /\ InitPs /\ InitIrq /\ InitRem /\ InitBoot /\ InitHpq
        /\ InitPost

SpecCmd == Init /\ [][NextCmd]_vars

NextPs ==
    \/ nrf_wifi_hal_dev_init /\ UNCHANGED <<cmdVars, remVars, bootVars, hpq_probe, post>>
    \/ \E p \in Callers : PsCallerTake(p) /\ UNCHANGED <<cmdVars, irqVars, remVars, bootVars, hpq_probe, post>>
    \/ \E p \in Callers : PsWakeEnter(p) /\ UNCHANGED <<cmdVars, irqVars, remVars, bootVars, hpq_probe, post>>
    \/ \E p \in Callers : PsDelay(p) /\ UNCHANGED <<cmdVars, irqVars, remVars, bootVars, hpq_probe, post>>
    \/ \E p \in Callers : PsPoll(p) /\ UNCHANGED <<cmdVars, irqVars, remVars, bootVars, hpq_probe, post>>
    \/ \E p \in Callers : PsIdleWait(p) /\ UNCHANGED <<cmdVars, irqVars, remVars, bootVars, hpq_probe, post>>
    \/ \E p \in Callers : PsCallerRel(p) /\ UNCHANGED <<cmdVars, irqVars, remVars, bootVars, hpq_probe, post>>
    \/ PsTimerFire /\ UNCHANGED <<cmdVars, irqVars, remVars, bootVars, hpq_probe, post>>
    \/ PsSleepBus /\ UNCHANGED <<cmdVars, irqVars, remVars, bootVars, hpq_probe, post>>
    \/ hal_rpu_ps_sleep /\ UNCHANGED <<cmdVars, irqVars, remVars, bootVars, hpq_probe, post>>
    \/ TickPs /\ UNCHANGED <<cmdVars, irqVars, remVars, bootVars, hpq_probe, post>>

SpecPs == Init /\ [][NextPs]_vars

NextIrq ==
    \/ nrf_wifi_hal_enable /\ UNCHANGED <<cmdVars, psVars, remVars, bootVars, hpq_probe, post>>
    \/ nrf_wifi_hal_disable /\ UNCHANGED <<cmdVars, psVars, remVars, bootVars, hpq_probe, post>>
    \/ IrqEnter /\ UNCHANGED <<cmdVars, psVars, remVars, bootVars, hpq_probe, post>>
    \/ IrqProcess /\ UNCHANGED <<cmdVars, psVars, remVars, bootVars, hpq_probe, post>>
    \/ IrqRel /\ UNCHANGED <<cmdVars, psVars, remVars, bootVars, hpq_probe, post>>
    \/ EventTaskletTake /\ UNCHANGED <<cmdVars, psVars, remVars, bootVars, hpq_probe, post>>
    \/ hal_rpu_eventq_process /\ UNCHANGED <<cmdVars, psVars, remVars, bootVars, hpq_probe, post>>
    \/ EventTaskletRel /\ UNCHANGED <<cmdVars, psVars, remVars, bootVars, hpq_probe, post>>
    \/ RecoveryTasklet /\ UNCHANGED <<cmdVars, psVars, remVars, bootVars, hpq_probe, post>>

SpecIrq == Init /\ [][NextIrq]_vars

NextRem ==
    \/ nrf_wifi_hal_enable /\ td_pc = "idle" /\ UNCHANGED <<cmdVars, psVars, remVars, bootVars, hpq_probe, post>>
    \/ IrqEnter /\ BusAttached /\ UNCHANGED <<cmdVars, psVars, remVars, bootVars, hpq_probe, post>>
    \/ IrqProcess /\ UNCHANGED <<cmdVars, psVars, remVars, bootVars, hpq_probe, post>>
    \/ IrqRel /\ UNCHANGED <<cmdVars, psVars, remVars, bootVars, hpq_probe, post>>
    \/ EventTaskletTake /\ UNCHANGED <<cmdVars, psVars, remVars, bootVars, hpq_probe, post>>
    \/ hal_rpu_eventq_process /\ UNCHANGED <<cmdVars, psVars, remVars, bootVars, hpq_probe, post>>
    \/ EventTaskletRel /\ UNCHANGED <<cmdVars, psVars, remVars, bootVars, hpq_probe, post>>
    \/ RecoveryTasklet /\ UNCHANGED <<cmdVars, psVars, remVars, bootVars, hpq_probe, post>>
    \/ DeinitDisable /\ UNCHANGED <<cmdVars, psVars, bootVars, hpq_probe, post>>
    \/ DeinitBal /\ UNCHANGED <<cmdVars, psVars, bootVars, hpq_probe, post>>
    \/ DrainDequeue /\ UNCHANGED <<cmdVars, psVars, bootVars, hpq_probe, post>>
    \/ DrainFree /\ UNCHANGED <<cmdVars, psVars, bootVars, hpq_probe, post>>
    \/ RemStep /\ UNCHANGED <<cmdVars, psVars, bootVars, hpq_probe, post>>

SpecRem == Init /\ [][NextRem]_vars

bootOther == <<cmdVars, psVars, irqVars, recovery_tasklet, remVars, hpq_probe, post>>

NextBoot ==
    \/ \E proc \in RpuProcs :
          nrf_wifi_hal_proc_ctx_set(proc) /\ UNCHANGED bootOther
    \/ \E proc \in RpuProcs, wr_ok \in BOOLEAN :
          ProcResetCall(proc, wr_ok) /\ UNCHANGED bootOther
    \/ \E rd_ok \in BOOLEAN, v \in {0, 1} :
          PollCtrl(rd_ok, v) /\ UNCHANGED bootOther
    \/ \E rd_ok \in BOOLEAN, v \in {0, 1} :
          PollWait(rd_ok, v) /\ UNCHANGED bootOther
    \/ ProcResetOut /\ UNCHANGED bootOther
    \/ \E proc \in RpuProcs : FwChkBootCall(proc) /\ UNCHANGED bootOther
    \/ \E rd_ok \in BOOLEAN, v \in BootVals :
          FwChkBootPoll(rd_ok, v) /\ UNCHANGED bootOther
    \/ FwChkBootOut /\ UNCHANGED bootOther
    \/ RbReturn /\ UNCHANGED bootOther

SpecBoot == Init /\ [][NextBoot]_vars

hpqOther == <<psVars, irqVars, recovery_tasklet, remVars, bootVars, post>>

NextHpq ==
    \/ \E a \in 1..HpqMaxAddr : HpqPublish(a) /\ UNCHANGED hpqOther
    \/ HpqConsume /\ UNCHANGED hpqOther
    \/ \E rd_ok \in BOOLEAN : HpqProbe(rd_ok) /\ UNCHANGED hpqOther

SpecHpq == Init /\ [][NextHpq]_vars

NextPost ==
    \E msg_type \in MsgTypes, queue_id \in 0..MAX_NUM_OF_RX_QUEUES,
       enq_ok \in BOOLEAN, wr_ok \in BOOLEAN :
        /\ hal_rpu_msg_post(msg_type, queue_id, 1, enq_ok, wr_ok)
        /\ UNCHANGED <<psVars, irqVars, recovery_tasklet, remVars, bootVars,
                       hpq_probe>>

SpecPost == Init /\ [][NextPost]_vars

(***************************************************************************)
(* Properties of the command pipeline.                                     *)
(***************************************************************************)
\* the positions between the take and the release of lock_hal
InSend == {"queue", "ready_wait", "msg_write", "out"}

\* the messages call p appended are the right fragments of its buffer, n of
\* them
FragmentsOf(p, n) ==
    /\ Len(appended[p]) = n
    /\ \A i \in 1..Len(appended[p]) :
          /\ appended[p][i].len <= max_cmd_size
          /\ appended[p][i].len = Len(appended[p][i].data)
          /\ appended[p][i].frag = i
    /\ Concat(appended[p]) = cmd[p]

\* while a call is queueing, what it appended so far is what cmd_q holds of it
AppendedInQueue ==
    \A p \in Callers :
        pc[p] = "queue" => SelectCall(cmd_q, p) = appended[p]

\* C1 as stated: a send whose allocations and queue writes all succeed
\* appends exactly ceil(L/M) messages, each of at most M bytes, whose
\* payloads in queue order make up the buffer, for every L from 0 on.
C1_Original ==
    \A p \in Callers :
        hist[p].queued =>
            FragmentsOf(p, CeilDiv(Len(cmd[p]), max_cmd_size))

\* C1 (amended): a send whose allocations and queue writes all succeed
\* appends exactly ceil(L/M) messages when L >= 1 and exactly one message,
\* of length 0, when L = 0; each is of at most M bytes and their payloads in
\* queue order make up the buffer byte for byte.
C1_Fragments ==
    /\ AppendedInQueue
    /\ \A p \in Callers :
          hist[p].queued =>
              FragmentsOf(p, IF Len(cmd[p]) = 0 THEN 1
                             ELSE CeilDiv(Len(cmd[p]), max_cmd_size))

\* a buffer that is no multiple of the limit has been queued in fragments
C1_Witness ==
    \E p \in Callers :
        /\ hist[p].queued
        /\ Len(cmd[p]) > max_cmd_size
        /\ Len(cmd[p]) % max_cmd_size # 0
        /\ Len(appended[p]) >= 2

\* the busy-ring posts and doorbell writes, in the order the RPU saw them
Posts == SelectSeq(bus_log, LAMBDA e : e.op \in {"busy_enq", "doorbell"})

\* C2: the busy-ring posts and doorbell writes for the fragments of one call
\* are never interleaved with those of another call, and within a call
\* they are made in fragment order.
C2_NoInterleave ==
    LET P == Posts IN
    \A i \in 1..Len(P) : \A k \in i..Len(P) :
        P[i].call = P[k].call =>
            /\ P[i].frag <= P[k].frag
            /\ \A j \in i..k : P[j].call = P[i].call

\* both calls had at least two fragments posted
C2_Witness ==
    \A p \in Callers :
        Cardinality({i \in 1..Len(Posts) :
                        Posts[i].call = p /\ Posts[i].op = "busy_enq"}) >= 2

\* C3: at most one caller is between the take and the release of lock_hal,
\* that caller holds the lock, and a caller that has returned, on whichever
\* path, does not hold it: the lock is free whenever no caller is inside.
C3_MutualExclusion ==
    /\ Cardinality({p \in Callers : pc[p] \in InSend}) <= 1
    /\ \A p \in Callers : pc[p] \in InSend <=> lock_hal = p
    /\ (\A p \in Callers : pc[p] \notin InSend) => lock_hal = NoOwner

\* one caller has returned failure from a failed queueing and the other is
\* inside
C3_Witness ==
    \E p \in Callers, o \in Callers :
        /\ pc[p] = "done" /\ ret[p] = "FAIL" /\ ~hist[p].queued
        /\ pc[o] \in InSend

\* the step in which caller p's wait for a free address times out
TimeoutStep(p) ==
    /\ pc[p] = "ready_wait"
    /\ <<cur[p].call, cur[p].frag>> \in freed' \ freed

\* C4: when the wait for a free address times out for a message, the
\* message is discarded and the drain loop exits, taking no later message
\* off the queue.
C4_Original ==
    [][\A p \in Callers :
          TimeoutStep(p) => (pc'[p] = "out" /\ cmd_q' = cmd_q)]_vars

\* C5: a send during whose drain some message was not delivered returns
\* failure.
C5_Claim ==
    \A p \in Callers :
        (pc[p] = "done" /\ hist[p].any_fail) => ret[p] = "FAIL"

\* the bus writes made by caller p
WritesBy(p) == SelectSeq(bus_log, LAMBDA e : e.by = p)

\* C6: a send that never reads a nonzero value from the available ring's
\* dequeue register returns failure, has made no RPU memory write, no
\* busy-ring post and no doorbell write, and leaves num_cmds as it found it.
\* Its wait for a message is bounded: while it waits with the ring empty,
\* either time has still to pass before the bound or the step that gives
\* the message up can be taken, and it gives a message up only once
\* MAX_HAL_RPU_READY_WAIT has elapsed.
C6_NoAddress ==
    /\ [](\A p \in Callers :
            ~hist[p].saw_avail =>
                /\ WritesBy(p) = <<>>
                /\ pc[p] = "out" =>
                      (status[p] = "FAIL" /\ num_cmds = hist[p].num_cmds_in)
                /\ pc[p] = "done" => ret[p] = "FAIL")
    /\ [](\A p \in Callers :
            (pc[p] = "ready_wait" /\ avl_ring = <<>>) =>
                /\ elapsed_us[p] <= MAX_HAL_RPU_READY_WAIT
                /\ ENABLED TickCmd \/ ENABLED <<ReadyWait(p)>>_cmdVars)
    /\ [][\A p \in Callers :
            TimeoutStep(p) => elapsed_us[p] >= MAX_HAL_RPU_READY_WAIT]_vars

\* a send of several fragments has returned without ever seeing an address
C6_Witness ==
    \E p \in Callers :
        /\ pc[p] = "done" /\ hist[p].queued /\ ~hist[p].saw_avail
        /\ Len(appended[p]) >= 2
        /\ ret[p] = "FAIL"

(***************************************************************************)
(* Properties of the power-save machine.                                   *)
(***************************************************************************)

\* the step in which hal_rpu_ps_wake of caller p makes its entry checks
WakeEntry(p) == ps_pc[p] = "call" /\ ps_pc'[p] # "call"

\* the step in which hal_rpu_ps_wake of caller p leaves its poll loop and
\* returns
WakeLoopReturn(p) ==
    ps_pc[p] \in {"poll", "idle_wait"} /\ ps_pc'[p] = "ret"

\* C7: hal_rpu_ps_wake called while the firmware is booted and rpu_ps_state
\* is already AWAKE returns success in that step: no bus wake signal, no
\* poll of the power status register, rpu_ps_state and the wake-asserted
\* flag and timestamp unchanged.
C7_AwakeNoBus ==
    [][\A p \in Callers :
         (WakeEntry(p) /\ rpu_fw_booted /\ rpu_ps_state = "AWAKE") =>
            /\ ps_pc'[p] = "ret"
            /\ ps_ret'[p] = "SUCCESS"
            /\ ~ps_hist'[p].woke
            /\ ~ps_hist'[p].polled
            /\ rpu_ps_state' = rpu_ps_state
            /\ is_wakeup_now_asserted' = is_wakeup_now_asserted
            /\ last_wakeup_now_asserted_time_ms'
                   = last_wakeup_now_asserted_time_ms]_vars

\* a call that found the firmware booted and the state AWAKE has returned,
\* later than the wake that made the state AWAKE
C7_Witness ==
    \E p \in Callers :
        /\ ps_pc[p] = "ret"
        /\ ps_hist[p].booted
        /\ ps_hist[p].state = "AWAKE"
        /\ ps_ret[p] = "SUCCESS"
        /\ now > last_wakeup_now_asserted_time_ms

\* C8: hal_rpu_ps_wake called while rpu_fw_booted is false returns success
\* in that step and changes nothing: no bus wake signal, no status poll,
\* state, flag and timestamps unchanged, timer not armed, no recovery work
\* scheduled.
C8_NotBootedNoOp ==
    [][\A p \in Callers :
         (WakeEntry(p) /\ ~rpu_fw_booted) =>
            /\ ps_pc'[p] = "ret"
            /\ ps_ret'[p] = "SUCCESS"
            /\ ~ps_hist'[p].woke
            /\ ~ps_hist'[p].polled
            /\ UNCHANGED <<rpu_fw_booted, rpu_ps_state, rpu_ps_timer,
                           is_wakeup_now_asserted,
                           last_wakeup_now_asserted_time_ms,
                           last_wakeup_now_deasserted_time_ms,
                           last_rpu_sleep_opp_time_ms, recovery_tasklet>>]_vars

\* a call made before the firmware was booted has returned
C8_Witness ==
    \E p \in Callers :
        /\ ps_pc[p] = "ret"
        /\ ~ps_hist[p].booted
        /\ ps_ret[p] = "SUCCESS"
        /\ ~rpu_ps_timer

\* C9: a wake that started ASLEEP with the firmware booted and to which the
\* status register never showed both bits returns failure; a wake returns
\* failure only when it never saw both bits and at least
\* RPU_PS_WAKE_TIMEOUT_S have passed since its wake signal, and then
\* rpu_ps_state is left as it was (ASLEEP), the recovery tasklet is
\* scheduled and the idle-sleep timer is armed.
C9_WakeTimeout ==
    [][\A p \in Callers :
         WakeLoopReturn(p) =>
            /\ ps_hist[p].booted /\ ps_hist[p].state = "ASLEEP"
            /\ ~ps_hist'[p].saw_ready => ps_ret'[p] = "FAIL"
            /\ ps_ret'[p] = "FAIL" =>
                  /\ ~ps_hist'[p].saw_ready
                  /\ Elapsed(ps_start[p])
                         >= RPU_PS_WAKE_TIMEOUT_S * TicksPerSec
                  /\ rpu_ps_state' = rpu_ps_state
                  /\ rpu_ps_state' = "ASLEEP"
                  /\ recovery_tasklet'
                  /\ rpu_ps_timer']_vars

\* a wake has polled, never saw both bits and returned failure
C9_Witness ==
    \E p \in Callers :
        /\ ps_pc[p] = "ret"
        /\ ps_ret[p] = "FAIL"
        /\ ps_hist[p].polled
        /\ ~ps_hist[p].saw_ready
        /\ rpu_ps_state = "ASLEEP"
        /\ recovery_tasklet
        /\ rpu_ps_timer

(***************************************************************************)
(* Properties of the interrupt handler.                                    *)
(***************************************************************************)

\* the step in which nrf_wifi_hal_irq_handler runs its body under lock_rx
IrqBody == irq_pc = "locked" /\ irq_pc' = "out"

\* C10: for every interrupt: HAL not enabled - hal_rpu_irq_process is not
\* run, no event is enqueued, no tasklet is scheduled, success is returned;
\* enabled and processing succeeds - exactly one tasklet is scheduled, the
\* recovery tasklet iff recovery was detected, else the event tasklet;
\* processing fails - none is scheduled.
C10_IrqHandler ==
    [][IrqBody =>
         /\ hal_status # "ENABLED" =>
               /\ ~irq_hist'.processed
               /\ event_q' = event_q
               /\ event_tasklet' = event_tasklet
               /\ recovery_tasklet' = recovery_tasklet
               /\ irq_hist'.sched = {}
               /\ irq_status' = "SUCCESS"
         /\ (hal_status = "ENABLED" /\ irq_hist'.ok) =>
               /\ irq_hist'.processed
               /\ Cardinality(irq_hist'.sched) = 1
               /\ irq_hist'.recovery =>
                     /\ irq_hist'.sched = {"recovery_tasklet"}
                     /\ recovery_tasklet'
                     /\ event_tasklet' = event_tasklet
               /\ ~irq_hist'.recovery =>
                     /\ irq_hist'.sched = {"event_tasklet"}
                     /\ event_tasklet'
                     /\ recovery_tasklet' = recovery_tasklet
         /\ (hal_status = "ENABLED" /\ ~irq_hist'.ok) =>
               /\ irq_hist'.sched = {}
               /\ irq_status' = "FAIL"
               /\ event_tasklet' = event_tasklet
               /\ recovery_tasklet' = recovery_tasklet]_vars

\* an interrupt on an enabled HAL enqueued events and detected recovery:
\* only the recovery tasklet is scheduled
C10_Witness ==
    /\ irq_pc = "out"
    /\ hal_status = "ENABLED"
    /\ irq_hist.ok
    /\ irq_hist.recovery
    /\ irq_hist.enq > 0
    /\ recovery_tasklet
    /\ ~event_tasklet

(***************************************************************************)
(* Properties of the event path.                                           *)
(***************************************************************************)

\* the events of a log of callback calls
Events(log) == [i \in 1..Len(log) |-> log[i].ev]

\* C11: hal_rpu_eventq_process calls the callback exactly once for each
\* event it dequeues, in FIFO order, and frees each buffer exactly once
\* after its callback: the events handed up, followed by those still
\* queued, are the events allocated, in allocation order, and the buffers
\* freed are the events handed up.  It returns only with the queue empty,
\* so a callback that failed stops nothing; no event handed up is queued
\* again.
C11_EventqProcess ==
    /\ Events(delivered) \o event_q = [i \in 1..ev_seq |-> i]
    /\ event_freed = Events(delivered)
    /\ evt_pc = "out" => event_q = <<>>

\* a callback failed for one event and the events queued behind it were
\* handed up all the same, in the same run
C11_Witness ==
    /\ evt_pc = "out"
    /\ Len(delivered) >= 3
    /\ ~delivered[1].ok
    /\ delivered[3].ok

(***************************************************************************)
(* Properties of disable, drain and teardown.                              *)
(***************************************************************************)
\* the HAL is disabled before and after the step
StaysDisabled == hal_status = "DISABLED" /\ hal_status' = "DISABLED"

\* the step is the return of hal_rpu_eventq_drain
DrainReturns == InDrain /\ (td_pc' # td_pc \/ rem_i' # rem_i)

\* hal_rpu_eventq_drain returns with event_q empty and every event buffer
\* allocated so far freed, and none of its steps invokes the callback
DrainFreesAll ==
    /\ DrainReturns => /\ event_q' = <<>>
                       /\ Range(event_freed') = 1..ev_seq
    /\ remVars' # remVars => delivered' = delivered

\* C12 as stated: once nrf_wifi_hal_disable has completed no event reaches
\* the callback, whatever the interleaving of interrupts, scheduled deferred
\* work and the disable call; and hal_rpu_eventq_drain frees every queued
\* buffer, leaves the queue empty and never invokes the callback
C12_Original ==
    [][/\ StaysDisabled => delivered' = delivered
       /\ DrainFreesAll]_vars

\* C12: while the HAL stays disabled after nrf_wifi_hal_disable has
\* completed, no interrupt puts an event on event_q or schedules the event
\* deferred work, so only events queued before the disable can still reach
\* the callback, through deferred work scheduled before it; and
\* hal_rpu_eventq_drain frees every queued buffer, leaves the queue empty
\* and never invokes the callback
C12_DisableDrain ==
    [][/\ StaysDisabled => /\ ev_seq' = ev_seq
                           /\ Len(event_q') <= Len(event_q)
                           /\ event_tasklet' => event_tasklet
       /\ DrainFreesAll]_vars

\* nrf_wifi_hal_dev_deinit has returned after draining two events, one event
\* was delivered before it and an interrupt has been ignored since
C12_Witness ==
    /\ td_pc = "deinit_done"
    /\ hal_status = "DISABLED"
    /\ Len(delivered) = 1
    /\ Len(event_freed) = 3
    /\ event_q = <<>>
    /\ irq_pc = "out"

\* the statements of nrf_wifi_hal_dev_rem that free a lock or a timer
LockTimerFrees ==
    {"free_lock_recovery", "free_lock_hal", "free_lock_rx",
     "kill_rpu_ps_timer", "free_rpu_ps_timer", "free_rpu_ps_lock"}

\* statement a has not been executed unless every statement of B has
After(a, B) == a \in Range(RemDone) => B \subseteq Range(RemDone)

\* C13 as stated: nrf_wifi_hal_dev_rem first disables interrupt-triggered
\* scheduling, then kills the recovery and event deferred work, then drains
\* the event queue, only then frees locks and timers, then the bus
\* resources, then the per-queue buffers, then the context; so nothing is
\* scheduled or runs against what teardown has freed
C13_Claim ==
    /\ rem_i > 1 => hal_status = "DISABLED"
    /\ After("drain", {"kill_recovery_tasklet", "kill_event_tasklet"})
    /\ \A f \in LockTimerFrees : After(f, {"drain"})
    /\ After("bal_dev_rem", LockTimerFrees)
    /\ After("free_tx_buf_info", {"bal_dev_rem"})
    /\ After("free_rx_buf_info", {"bal_dev_rem"})
    /\ After("free_hal_dev_ctx", {"free_tx_buf_info", "free_rx_buf_info"})
    /\ event_tasklet \/ evt_pc # "idle"
           => "free_event_tasklet" \notin Range(RemDone)
    /\ recovery_tasklet => "free_recovery_tasklet" \notin Range(RemDone)
    /\ irq_pc # "idle" => "free_lock_rx" \notin Range(RemDone)

(***************************************************************************)
(* Properties of processor reset and boot check.                           *)
(***************************************************************************)
\* C14 as stated: nrf_wifi_hal_proc_reset returns success only if a poll
\* within the retry budget observed the control bit clear and a poll within
\* the retry budget observed the wait-instruction signature set
C14_Claim ==
    rb_pc = "reset_ret" /\ rb_status = "SUCCESS" => seen_clear /\ seen_sig

\* C15 as stated: for a supported processor nrf_wifi_hal_fw_chk_boot returns
\* success if and only if one of the MCU_FW_BOOT_TIMEOUT_MS / 10 allowed
\* polls, the first and the last included, found the boot signature
C15_Claim ==
    rb_pc = "boot_ret" /\ rb_proc # RPU_PROC_TYPE_MAX
        => (rb_status = "SUCCESS" <=> seen_magic)

\* C16: when nrf_wifi_hal_proc_reset or nrf_wifi_hal_fw_chk_boot returns, on
\* every path, curr_proc is RPU_PROC_TYPE_MCU_LMAC; during the polls of a
\* call with a supported processor curr_proc is that processor
C16_CurrProc ==
    /\ rb_pc \in {"reset_ret", "boot_ret"}
           => curr_proc = RPU_PROC_TYPE_MCU_LMAC
    /\ rb_pc \in {"poll_ctrl", "poll_wait", "boot_loop"}
       /\ rb_proc # RPU_PROC_TYPE_MAX
           => curr_proc = rb_proc

\* a reset of the UMAC core has returned failure after its second poll ran
\* out of retries with a failing last read
C16_Witness ==
    /\ rb_pc = "reset_ret"
    /\ rb_proc = RPU_PROC_TYPE_MCU_UMAC
    /\ rb_status = "FAIL"
    /\ seen_clear
    /\ rb_polls = PollCount + 1

(***************************************************************************)
(* Properties of the ring probes.                                          *)
(***************************************************************************)
\* C17: hal_rpu_hpq_is_empty reports empty when the read of the dequeue
\* register fails or returns 0 and not empty for every successful read of a
\* nonzero value; hal_rpu_ready succeeds exactly when the command available
\* ring is reported not empty
C17_HpqEmpty ==
    hpq_probe.made =>
        /\ hpq_probe.empty <=> (~hpq_probe.rd_ok \/ hpq_probe.val = 0)
        /\ hpq_probe.ready = "SUCCESS" <=> ~hpq_probe.empty

\* a probe whose read failed while the register held an address
C17_Witness ==
    /\ hpq_probe.made
    /\ ~hpq_probe.rd_ok
    /\ hpq_probe.val # 0
    /\ hpq_probe.empty

(***************************************************************************)
(* Properties of the power state and its lock.                             *)
(***************************************************************************)
\* the positions of hal_rpu_ps_wake between the bus wake signal and the
\* return: settle delay, status poll, interval wait
WakeSeq == {"delay", "poll", "idle_wait"}

\* C18: every change of rpu_ps_state is made by the holder of rpu_ps_lock,
\* the timer context in hal_rpu_ps_sleep or the caller of hal_rpu_ps_wake;
\* hal_rpu_ps_sleep neither starts nor runs while a wake sequence is between
\* its bus wake signal and its return, so AWAKE is never set after a sleep
\* transition that began later than the wake signal
C18_PowerLock ==
    [][/\ rpu_ps_state' # rpu_ps_state =>
            \/ /\ rpu_ps_state' = "ASLEEP"
               /\ rpu_ps_lock = TimerCtx
            \/ /\ rpu_ps_state' = "AWAKE"
               /\ \E p \in Callers : rpu_ps_lock = p /\ ps_pc[p] = "poll"
       /\ (\E p \in Callers : ps_pc[p] \in WakeSeq)
            => sleep_pc = "idle" /\ sleep_pc' = "idle"]_vars

\* a wake sequence polls the status register while the idle-sleep timer of
\* an earlier call is due and has to wait for rpu_ps_lock
C18_Witness ==
    \E p \in Callers :
        /\ ps_pc[p] = "poll"
        /\ rpu_ps_lock = p
        /\ rpu_ps_timer
        /\ rpu_ps_state = "ASLEEP"

\* C19: rpu_ps_state is ASLEEP after hal_rpu_ps_init and is always AWAKE or
\* ASLEEP; it becomes AWAKE only in a hal_rpu_ps_wake call that gave the
\* bus the wake signal and then read a status with both the power-state and
\* the ready-state bit set; it becomes ASLEEP only in hal_rpu_ps_sleep,
\* after that call gave the bus the sleep signal
C19_PowerState ==
    /\ rpu_ps_state = "ASLEEP"
    /\ [](rpu_ps_state \in {"AWAKE", "ASLEEP"})
    /\ [][rpu_ps_state' # rpu_ps_state =>
            \/ /\ rpu_ps_state' = "AWAKE"
               /\ \E p \in Callers :
                    /\ ps_pc[p] = "poll"
                    /\ ps_hist[p].woke
                    /\ ps_hist'[p].saw_ready
            \/ /\ rpu_ps_state' = "ASLEEP"
               /\ sleep_pc = "signalled"
               /\ ps_bus = "SLEEP"]_vars

\* the state went to AWAKE and the idle-sleep timer has brought it back to
\* ASLEEP, after a sleep signal
C19_Witness ==
    /\ rpu_ps_state = "ASLEEP"
    /\ ps_bus = "SLEEP"
    /\ sleep_pc = "idle"
    /\ \E p \in Callers : ps_hist[p].saw_ready

(***************************************************************************)
(* Properties of hal_rpu_msg_post.                                         *)
(***************************************************************************)
\* the doorbell writes of the last call
Doorbells == SelectSeq(post.writes, LAMBDA w : w.op = "doorbell")

\* C20: a successful control or data-TX post makes one busy-ring enqueue and
\* then exactly one doorbell write, of the value num_cmds | 0x7fff0000, and
\* adds one to num_cmds; a data-receive post makes no doorbell write and
\* leaves num_cmds alone; a failed doorbell write leaves num_cmds alone;
\* num_cmds never decreases
C20_Doorbell ==
    post.made =>
        /\ post.status = "SUCCESS"
           /\ post.msg_type \in {"CMD_CTRL", "CMD_DATA_TX"}
              => /\ Len(post.writes) = 2
                 /\ post.writes[1].op = "busy_enq"
                 /\ post.writes[2].op = "doorbell"
                 /\ post.writes[2].val = 2147418112 + post.num_cmds_in
                 /\ num_cmds = post.num_cmds_in + 1
        /\ post.msg_type = "CMD_DATA_RX"
              => /\ Doorbells = <<>>
                 /\ num_cmds = post.num_cmds_in
        /\ (\E i \in 1..Len(Doorbells) : ~Doorbells[i].ok)
              => num_cmds = post.num_cmds_in
        /\ num_cmds >= post.num_cmds_in

\* the third doorbell has been rung, by a data-TX post
C20_Witness ==
    /\ post.made
    /\ post.status = "SUCCESS"
    /\ post.msg_type = "CMD_DATA_TX"
    /\ post.num_cmds_in = 2
    /\ num_cmds = 3

(***************************************************************************)
(* Further properties of the command pipeline.                             *)
(***************************************************************************)
\* the addresses the host has put on the command busy ring
BusyEnqueues == SelectSeq(bus_log, LAMBDA e : e.op = "busy_enq")

\* C21 as stated: in every reachable state, after enqueue and doorbell
\* failures too, the number of addresses enqueued on the command busy ring
\* equals the number of increments of num_cmds
C21_Claim == Len(BusyEnqueues) = num_cmds

\* the send of caller p has left hal_rpu_cmd_queue on a failed allocation or
\* queue write
Aborted(p) == pc[p] \in {"out", "done"} /\ ~hist[p].queued

\* the call and fragment numbers of a sequence of messages or bus writes
Ids(msgs) == [i \in 1..Len(msgs) |-> <<msgs[i].call, msgs[i].frag>>]

\* the messages caller q put on the command busy ring, in order
PostedBy(q) ==
    Ids(SelectSeq(bus_log, LAMBDA e : e.by = q /\ e.op = "busy_enq"))

\* the fragments an aborted send of another caller left in cmd_q before the
\* send of q drained the queue
LeftoverFor(q) ==
    LET p == CHOOSE c \in Callers : c # q
    IN  IF Aborted(p) /\ SelectCall(cmd_q, p) = <<>> THEN appended[p]
        ELSE <<>>

NewWrites == SubSeq(bus_log', Len(bus_log) + 1, Len(bus_log'))

C24_Original == rpu_ps_state = "AWAKE" => is_wakeup_now_asserted

\* C24: except while hal_rpu_ps_sleep, holding rpu_ps_lock, is between
\* clearing is_wakeup_now_asserted and setting rpu_ps_state, rpu_ps_state
\* AWAKE implies that is_wakeup_now_asserted is true; when hal_rpu_ps_sleep
\* completes, is_wakeup_now_asserted is false and rpu_ps_state is ASLEEP
C24_WakeupFlag ==
    /\ [](sleep_pc # "signalled" =>
              (rpu_ps_state = "AWAKE" => is_wakeup_now_asserted))
    /\ [][sleep_pc = "signalled" /\ sleep_pc' = "idle" =>
              /\ ~is_wakeup_now_asserted'
              /\ rpu_ps_state' = "ASLEEP"]_vars

\* the timer callback put an awake device to sleep, and a later wake call
\* has brought it back to AWAKE with the flag set
C24_Witness ==
    /\ rpu_ps_state = "AWAKE"
    /\ is_wakeup_now_asserted
    /\ sleep_pc = "idle"
    /\ last_wakeup_now_deasserted_time_ms > 0
    /\ last_wakeup_now_asserted_time_ms >= last_wakeup_now_deasserted_time_ms

(***************************************************************************)
(* Failed reads in nrf_wifi_hal_poll_reg; unsupported processors.          *)
(***************************************************************************)
\* C25 as stated: nrf_wifi_hal_poll_reg returns success only if a read
\* within its budget succeeded and returned a value that satisfies the
\* polled condition: the poll of the control bit has returned success once
\* the reset is in its second poll, and the poll of the signature has
\* returned success when the reset returns success
C25_Claim ==
    /\ rb_pc = "poll_wait" => ok_clear
    /\ rb_pc = "reset_ret" /\ rb_status = "SUCCESS" => ok_sig

\* C26 as stated: nrf_wifi_hal_fw_chk_boot called with a processor that is
\* neither LMAC nor UMAC never returns success, and nrf_wifi_hal_proc_reset
\* called with such a processor returns failure without a poll
C26_Claim ==
    /\ rb_pc = "boot_ret" /\ rb_proc = RPU_PROC_TYPE_MAX
           => rb_status = "FAIL"
    /\ rb_pc = "reset_ret" /\ rb_proc = RPU_PROC_TYPE_MAX
           => rb_status = "FAIL" /\ rb_polls = 0

====
